---- MODULE Spec2Model ----
(***************************************************************************)
(* Model of the bronchitis-risk pipeline: the two BronchitisPredictor      *)
(* classes (src/app.py and src/web_predict.py), display_results and        *)
(* analyze_audio_file (src/app.py).                                        *)
(*                                                                         *)
(* External libraries are the environment.  librosa (decode + MFCC) either *)
(* raises or yields a 40 x n matrix; load_model / np.load either raise or  *)
(* yield the artifact; the Keras forward pass either raises or yields a    *)
(* probability vector.  Their outcomes are the inputs of the actions.      *)
(*                                                                         *)
(* Numbers.  A probability p is the integer p * Scale (a value on a grid   *)
(* of 1/Scale, taken exactly: float rounding is not modelled); thresholds  *)
(* are compared by cross-multiplication.  Python indices are 0-based, the  *)
(* sequences below are 1-based.                                            *)
(***************************************************************************)
EXTENDS Integers, Sequences, FiniteSets

VARIABLES
  predictor,  \* the predictor object that method calls act on (self)
  loads,      \* number of load_model invocations made by the process so far
  call,       \* the last call made: its inputs, its path and its result
  mfccs,      \* the matrix librosa.feature.mfcc produced in the last extract_features call
  features,   \* the matrix the last extract_features call returned (<<>> when None)
  ui          \* what display_results rendered in the last request

vars == <<predictor, loads, call, mfccs, features, ui>>

----------------------------------------------------------------------------
\* Bounds of the model.

\* clips of 0..MaxShort frames and of max_pad_len-MaxShort .. max_pad_len+MaxOver frames
MaxShort == 2
MaxOver == 2
\* MFCC contents are drawn from MaxSeed+1 different matrices per frame count
MaxSeed == 4
\* probabilities lie on a grid of 1/Scale
Scale == 10
\* at most MaxLoads load_model invocations are followed
MaxLoads == 2

----------------------------------------------------------------------------
\* Program constants.

\* n_mfcc=40 in librosa.feature.mfcc
n_mfcc == 40
\* self.max_pad_len = 174
PAD_LEN == 174

\* the label encoder artifact: index order of the classifier's output layer
LabelTaxonomy == <<"bronchitis", "healthy_breath", "healthy_voice">>

ModelNotLoaded == "Error: Model not loaded"
CouldNotProcess == "Error: Could not process audio file"

----------------------------------------------------------------------------
\* MFCC matrices: a sequence of n_mfcc rows, each a sequence of n frames.

FrameCounts == (0..MaxShort) \cup ((PAD_LEN - MaxShort)..(PAD_LEN + MaxOver))

\* the matrix librosa yields for a clip: n frames, contents picked by seed
MFCC(n, seed) ==
  [r \in 1..n_mfcc |-> [c \in 1..n |-> ((r * c + seed) % 5) - 2]]

\* an audio input: whether librosa decodes it, and the MFCC matrix it gives
Clips ==
  {[ok |-> FALSE, n |-> 0, seed |-> 0]}
    \cup [ok : {TRUE}, n : FrameCounts, seed : 0..MaxSeed]

FewClips ==
  {[ok |-> FALSE, n |-> 0, seed |-> 0],
   [ok |-> TRUE, n |-> 1, seed |-> 0],
   [ok |-> TRUE, n |-> PAD_LEN + 1, seed |-> 1]}

\* mfccs.shape[1]
NFrames(m) == Len(m[1])

\* mutant of Truncate: keeps the last max_pad_len frames (mfccs[:, -max_pad_len:])
Truncate_keeps_tail(m, pad_len) ==
  [r \in 1..Len(m) |-> [c \in 1..pad_len |-> m[r][c + NFrames(m) - pad_len]]]

\* mfccs[:, :max_pad_len]
Truncate(m, pad_len) ==
  [r \in 1..Len(m) |-> [c \in 1..pad_len |-> m[r][c]]]

\* np.pad(mfccs, pad_width=((0, 0), (0, pad_width)), mode='constant')
PadRight(m, pad_width) ==
  LET n == NFrames(m) IN
  [r \in 1..Len(m) |->
     [c \in 1..(n + pad_width) |-> IF c <= n THEN m[r][c] ELSE 0]]

\* mutant of PadOrTruncate: the truncating branch is missing
PadOrTruncate_pads_only(m, pad_len) ==
  LET pad_width == pad_len - NFrames(m) IN
  IF pad_width < 0 THEN m ELSE PadRight(m, pad_width)

\* the if/else on pad_width of extract_features
PadOrTruncate(m, pad_len) ==
  LET pad_width == pad_len - NFrames(m) IN
  IF pad_width < 0 THEN Truncate(m, pad_len) ELSE PadRight(m, pad_width)

----------------------------------------------------------------------------
\* Predictor objects.  attrs is the set of attributes the constructor set:
\* a constructor that fails before an assignment leaves the attribute unset.

NoPredictor ==
  [impl |-> "none", model |-> "None", label_encoder |-> <<>>,
   max_pad_len |-> 0, attrs |-> {}]

LoadedPredictor(impl) ==
  [impl |-> impl, model |-> "Loaded", label_encoder |-> LabelTaxonomy,
   max_pad_len |-> PAD_LEN, attrs |-> {"model", "label_encoder", "max_pad_len"}]

UnloadedPredictor(impl) ==
  [impl |-> impl, model |-> "None", label_encoder |-> <<>>,
   max_pad_len |-> 0, attrs |-> {"model"}]

\* the artifacts on disk at construction: whether models/bronchitis_model.h5
\* exists, whether load_model succeeds on it, whether np.load of the label
\* encoder succeeds
Envs ==
  {e \in [exists : BOOLEAN, model_ok : BOOLEAN, encoder_ok : BOOLEAN] :
     /\ ~e.exists => ~e.model_ok
     /\ ~e.model_ok => ~e.encoder_ok}

ArtifactsOk(env) == env.exists /\ env.model_ok /\ env.encoder_ok

\* app.py BronchitisPredictor.__init__: never raises; model = None on any failure
App_init(env) ==
  IF env.exists
    THEN IF env.model_ok /\ env.encoder_ok
           THEN [self |-> LoadedPredictor("app"), raised |-> FALSE,
                 errors |-> {}, loads |-> 1]
           ELSE [self |-> UnloadedPredictor("app"), raised |-> FALSE,
                 errors |-> {"model load failed"}, loads |-> 1]
    ELSE [self |-> UnloadedPredictor("app"), raised |-> FALSE,
          errors |-> {"model file not found"}, loads |-> 0]

\* web_predict.py BronchitisPredictor.__init__: reports the failure and re-raises
Web_init(env) ==
  IF ArtifactsOk(env)
    THEN [self |-> LoadedPredictor("web"), raised |-> FALSE,
          errors |-> {}, loads |-> 1]
    ELSE [self |-> NoPredictor, raised |-> TRUE,
          errors |-> {"model load failed"}, loads |-> 1]

----------------------------------------------------------------------------
\* extract_features: None (none = TRUE) when anything inside the try raises,
\* an unset self.max_pad_len (AttributeError) included.

ExtractNone(m) ==
  [none |-> TRUE, mfccs |-> m, features |-> <<>>,
   errors |-> {"audio processing error"}]

\* whether the try block of app.py's extract_features raises
App_extract_raises(self, clip) ==
  ~clip.ok \/ "max_pad_len" \notin self.attrs

\* app.py BronchitisPredictor.extract_features
App_extract_features(self, clip) ==
  IF ~clip.ok THEN ExtractNone(<<>>)
  ELSE LET m == MFCC(clip.n, clip.seed) IN
       IF App_extract_raises(self, clip) THEN ExtractNone(m)
       ELSE [none |-> FALSE, mfccs |-> m,
             features |-> PadOrTruncate(m, self.max_pad_len), errors |-> {}]

\* whether the try block of web_predict.py's extract_features raises
Web_extract_raises(self, clip) ==
  ~clip.ok \/ "max_pad_len" \notin self.attrs

\* web_predict.py BronchitisPredictor.extract_features
Web_extract_features(self, clip) ==
  IF ~clip.ok THEN ExtractNone(<<>>)
  ELSE LET m == MFCC(clip.n, clip.seed) IN
       IF Web_extract_raises(self, clip) THEN ExtractNone(m)
       ELSE [none |-> FALSE, mfccs |-> m,
             features |-> PadOrTruncate(m, self.max_pad_len), errors |-> {}]

----------------------------------------------------------------------------
\* The forward pass and the scoring of its output.

\* what self.model.predict does: raises, or returns a probability vector
Forwards ==
  {[ok |-> FALSE, prediction |-> <<>>]}
    \cup {[ok |-> TRUE, prediction |-> <<ab[1], ab[2], Scale - ab[1] - ab[2]>>] :
            ab \in {x \in (0..Scale) \X (0..Scale) : x[1] + x[2] <= Scale}}

\* np.max(prediction)
MaxOf(v) == CHOOSE x \in {v[i] : i \in 1..Len(v)} : \A j \in 1..Len(v) : v[j] <= x

\* mutant of ArgMax: on ties the last index holding the maximum
ArgMax_last(v) ==
  CHOOSE i \in 1..Len(v) :
    /\ v[i] = MaxOf(v)
    /\ \A j \in (i + 1)..Len(v) : v[j] # MaxOf(v)

\* np.argmax(prediction): the first index holding the maximum
ArgMax(v) ==
  CHOOSE i \in 1..Len(v) :
    /\ v[i] = MaxOf(v)
    /\ \A j \in 1..(i - 1) : v[j] # MaxOf(v)

\* np.where(self.label_encoder == "bronchitis")[0][0]
IndexOf(enc, name) ==
  CHOOSE i \in 1..Len(enc) :
    /\ enc[i] = name
    /\ \A j \in 1..(i - 1) : enc[j] # name

\* mutant of BronchitisProb: healthy_breath reports the confidence itself
BronchitisProb_no_complement(enc, prediction, predicted_label, confidence) ==
  IF predicted_label = "bronchitis" THEN confidence
  ELSE IF predicted_label = "healthy_breath" THEN confidence
  ELSE IF predicted_label = "healthy_voice"
         THEN prediction[IndexOf(enc, "bronchitis")]
  ELSE 0

\* the if/elif chain computing bronchitis_prob (app.py 125-132, web_predict.py 45-51)
BronchitisProb(enc, prediction, predicted_label, confidence) ==
  IF predicted_label = "bronchitis" THEN confidence
  ELSE IF predicted_label = "healthy_breath" THEN Scale - confidence
  ELSE IF predicted_label = "healthy_voice"
         THEN prediction[IndexOf(enc, "bronchitis")]
  ELSE 0

PredictReturn(label, risk, prediction, errors, forward, extracted, checked) ==
  [ret |-> "tuple", raised |-> FALSE, label |-> label, risk |-> risk,
   prediction |-> prediction, errors |-> errors, forward |-> forward,
   extracted |-> extracted, model_checked |-> checked, fwd_ok |-> TRUE]

PredictRaise(errors, checked) ==
  [ret |-> "raise", raised |-> TRUE, label |-> "", risk |-> 0,
   prediction |-> <<>>, errors |-> errors, forward |-> 1,
   extracted |-> TRUE, model_checked |-> checked, fwd_ok |-> FALSE]

\* mutant of App_predict: the test of features against None is missing, so the
\* forward pass is attempted whatever extract_features returned
App_predict_no_none_test(self, clip, fwd) ==
  IF self.model = "None"
    THEN PredictReturn(ModelNotLoaded, 0, <<>>, {"model not loaded"}, 0, FALSE, TRUE)
  ELSE IF ~fwd.ok \/ App_extract_raises(self, clip)
    THEN PredictRaise({}, TRUE)
  ELSE LET predicted_index == ArgMax(fwd.prediction)
           predicted_label == self.label_encoder[predicted_index]
           confidence == MaxOf(fwd.prediction)
       IN PredictReturn(predicted_label,
                        BronchitisProb(self.label_encoder, fwd.prediction,
                                       predicted_label, confidence),
                        fwd.prediction, {}, 1, TRUE, TRUE)

\* In predict, features is None exactly when the try block of extract_features
\* raised; the matrix itself only feeds the forward pass, whose outcome (fwd)
\* is an input.

\* app.py BronchitisPredictor.predict
App_predict(self, clip, fwd) ==
  IF self.model = "None"
    THEN PredictReturn(ModelNotLoaded, 0, <<>>, {"model not loaded"}, 0, FALSE, TRUE)
  ELSE IF App_extract_raises(self, clip)
      THEN PredictReturn(CouldNotProcess, 0, <<>>, {"audio processing error"},
                         0, TRUE, TRUE)
    ELSE IF ~fwd.ok THEN PredictRaise({}, TRUE)
    ELSE LET predicted_index == ArgMax(fwd.prediction)
             predicted_label == self.label_encoder[predicted_index]
             confidence == MaxOf(fwd.prediction)
         IN PredictReturn(predicted_label,
                          BronchitisProb(self.label_encoder, fwd.prediction,
                                         predicted_label, confidence),
                          fwd.prediction, {}, 1, TRUE, TRUE)

\* web_predict.py BronchitisPredictor.predict: no test of self.model
Web_predict(self, clip, fwd) ==
    IF Web_extract_raises(self, clip)
      THEN PredictReturn(CouldNotProcess, 0, <<>>, {"audio processing error"},
                         0, TRUE, FALSE)
    ELSE IF ~fwd.ok THEN PredictRaise({}, FALSE)
    ELSE LET predicted_index == ArgMax(fwd.prediction)
             predicted_label == self.label_encoder[predicted_index]
             confidence == MaxOf(fwd.prediction)
         IN PredictReturn(predicted_label,
                          BronchitisProb(self.label_encoder, fwd.prediction,
                                         predicted_label, confidence),
                          fwd.prediction, {}, 1, TRUE, FALSE)

----------------------------------------------------------------------------
\* Rendering and the request handler (src/app.py).

NoUI == [displayed |-> FALSE, label |-> "", risk |-> 0, level |-> "", panel |-> ""]

\* mutant of RiskLevel: the boundaries belong to the upper tier (>= for >)
RiskLevel_inclusive(risk) ==
  IF risk * 10 >= 7 * Scale THEN "High"
  ELSE IF risk * 10 >= 4 * Scale THEN "Medium"
  ELSE "Low"

\* the if/elif/else of the risk-level metric (col3): risk > 0.7, risk > 0.4
RiskLevel(risk) ==
  IF risk * 10 > 7 * Scale THEN "High"
  ELSE IF risk * 10 > 4 * Scale THEN "Medium"
  ELSE "Low"

\* the if/elif/else of the detailed-assessment panel: risk > 0.7, risk > 0.4
RiskPanel(risk) ==
  IF risk * 10 > 7 * Scale THEN "risk-high"
  ELSE IF risk * 10 > 4 * Scale THEN "risk-medium"
  ELSE "risk-low"

\* display_results(label, risk): the tier metric and the assessment panel
display_results(label, risk) ==
  [displayed |-> TRUE, label |-> label, risk |-> risk,
   level |-> RiskLevel(risk), panel |-> RiskPanel(risk)]

\* mutant of analyze_audio_file: an "Error: ..." result is not rendered
analyze_audio_file_hides_errors(env, clip, fwd) ==
  LET c == App_init(env) IN
  IF c.self.model = "None"
    THEN [p |-> PredictReturn("", 0, <<>>, c.errors \cup {"cannot analyse"},
                              0, FALSE, FALSE),
          predicted |-> FALSE, caught |-> FALSE, ui |-> NoUI, loads |-> c.loads]
  ELSE LET p == App_predict(c.self, clip, fwd) IN
    IF p.raised
      THEN [p |-> [p EXCEPT !.errors = c.errors \cup @ \cup {"analysis error"}],
            predicted |-> TRUE, caught |-> TRUE, ui |-> NoUI, loads |-> c.loads]
    ELSE [p |-> [p EXCEPT !.errors = c.errors \cup @],
          predicted |-> TRUE, caught |-> FALSE,
          ui |-> IF p.label \in {ModelNotLoaded, CouldNotProcess}
                   THEN NoUI ELSE display_results(p.label, p.risk),
          loads |-> c.loads]

\* analyze_audio_file(audio_path): a fresh predictor per request, the early
\* return on model None, predict, display_results, and the except clause
analyze_audio_file(env, clip, fwd) ==
  LET c == App_init(env) IN
  IF c.self.model = "None"
    THEN [p |-> PredictReturn("", 0, <<>>, c.errors \cup {"cannot analyse"},
                              0, FALSE, FALSE),
          predicted |-> FALSE, caught |-> FALSE, ui |-> NoUI, loads |-> c.loads]
  ELSE LET p == App_predict(c.self, clip, fwd) IN
    IF p.raised
      THEN [p |-> [p EXCEPT !.errors = c.errors \cup @ \cup {"analysis error"}],
            predicted |-> TRUE, caught |-> TRUE, ui |-> NoUI, loads |-> c.loads]
    ELSE [p |-> [p EXCEPT !.errors = c.errors \cup @],
          predicted |-> TRUE, caught |-> FALSE,
          ui |-> display_results(p.label, p.risk), loads |-> c.loads]

----------------------------------------------------------------------------
\* The state machine.  call records the last call: op and impl name it,
\* model_loaded says whether its predictor had (or got) a loaded model, clip_ok
\* whether librosa could decode its audio, raised whether an exception left the
\* call, caught whether analyze_audio_file's except clause ran, forward how many
\* times the classifier's forward pass was invoked, fwd_ok whether it returned.

NoCall ==
  [op |-> "none", impl |-> "none", model_loaded |-> FALSE, clip_ok |-> TRUE,
   ret |-> "void", raised |-> FALSE, caught |-> FALSE, label |-> "", risk |-> 0,
   prediction |-> <<>>, errors |-> {}, forward |-> 0, extracted |-> FALSE,
   model_checked |-> FALSE, fwd_ok |-> TRUE]

CallOf(op, impl, model_loaded, clip_ok, caught, p) ==
  [op |-> op, impl |-> impl, model_loaded |-> model_loaded, clip_ok |-> clip_ok,
   ret |-> p.ret, raised |-> p.raised, caught |-> caught, label |-> p.label,
   risk |-> p.risk, prediction |-> p.prediction, errors |-> p.errors,
   forward |-> p.forward, extracted |-> p.extracted,
   model_checked |-> p.model_checked, fwd_ok |-> p.fwd_ok]

Init ==
  /\ predictor = NoPredictor
  /\ loads = 0
  /\ call = NoCall
  /\ mfccs = <<>>
  /\ features = <<>>
  /\ ui = NoUI

\* predictor = BronchitisPredictor() with app.py's class
AppInit(env) ==
  LET r == App_init(env) IN
  /\ loads + r.loads <= MaxLoads
  /\ predictor' = r.self
  /\ loads' = loads + r.loads
  /\ call' = [NoCall EXCEPT !.op = "init", !.impl = "app",
                            !.model_loaded = (r.self.model = "Loaded"),
                            !.raised = r.raised, !.errors = r.errors]
  /\ mfccs' = <<>>
  /\ features' = <<>>
  /\ ui' = NoUI

\* predictor = BronchitisPredictor() with web_predict.py's class: when the
\* constructor raises, the assignment does not happen
WebInit(env) ==
  LET r == Web_init(env) IN
  /\ loads + r.loads <= MaxLoads
  /\ predictor' = IF r.raised THEN predictor ELSE r.self
  /\ loads' = loads + r.loads
  /\ call' = [NoCall EXCEPT !.op = "init", !.impl = "web",
                            !.model_loaded = ~r.raised,
                            !.ret = IF r.raised THEN "raise" ELSE "void",
                            !.raised = r.raised, !.errors = r.errors]
  /\ mfccs' = <<>>
  /\ features' = <<>>
  /\ ui' = NoUI

\* mutant of ExtractFeatures: the pad width is written to self.max_pad_len
ExtractFeatures_writes_self(clip) ==
  /\ predictor.impl # "none"
  /\ \E fe \in {IF predictor.impl = "app"
                   THEN App_extract_features(predictor, clip)
                   ELSE Web_extract_features(predictor, clip)} :
        /\ call' = [NoCall EXCEPT !.op = "extract_features",
                                  !.impl = predictor.impl,
                                  !.model_loaded = (predictor.model = "Loaded"),
                                  !.clip_ok = clip.ok,
                                  !.ret = IF fe.none THEN "None" ELSE "array",
                                  !.errors = fe.errors, !.extracted = TRUE]
        /\ mfccs' = fe.mfccs
        /\ features' = fe.features
        /\ predictor' = IF fe.none THEN predictor
                        ELSE [predictor EXCEPT !.max_pad_len = @ - NFrames(fe.mfccs)]
  /\ UNCHANGED loads
  /\ ui' = NoUI

\* predictor.extract_features(audio_path)
ExtractFeatures(clip) ==
  /\ predictor.impl # "none"
  /\ \E fe \in {IF predictor.impl = "app"
                   THEN App_extract_features(predictor, clip)
                   ELSE Web_extract_features(predictor, clip)} :
        /\ call' = [NoCall EXCEPT !.op = "extract_features",
                                  !.impl = predictor.impl,
                                  !.model_loaded = (predictor.model = "Loaded"),
                                  !.clip_ok = clip.ok,
                                  !.ret = IF fe.none THEN "None" ELSE "array",
                                  !.errors = fe.errors, !.extracted = TRUE]
        /\ mfccs' = fe.mfccs
        /\ features' = fe.features
  /\ UNCHANGED <<predictor, loads>>
  /\ ui' = NoUI

\* predictor.predict(audio_path)
Predict(clip, fwd) ==
  /\ predictor.impl # "none"
  /\ \E p \in {IF predictor.impl = "app"
                  THEN App_predict(predictor, clip, fwd)
                  ELSE Web_predict(predictor, clip, fwd)} :
       call' = CallOf("predict", predictor.impl, predictor.model = "Loaded",
                       clip.ok, FALSE, p)
  /\ UNCHANGED <<predictor, loads>>
  /\ mfccs' = <<>>
  /\ features' = <<>>
  /\ ui' = NoUI

\* one analysis request of the Streamlit app: analyze_audio_file(audio_path)
AnalyzeAudioFile(env, clip, fwd) ==
  \E a \in {analyze_audio_file(env, clip, fwd)} :
  /\ loads + a.loads <= MaxLoads
  /\ loads' = loads + a.loads
  /\ call' = CallOf("analyze_audio_file", "app", ArtifactsOk(env), clip.ok,
                    a.caught, [a.p EXCEPT !.ret = "void", !.raised = FALSE])
  /\ ui' = a.ui
  /\ mfccs' = <<>>
  /\ features' = <<>>
  /\ UNCHANGED predictor

Next ==
  \/ \E env \in Envs : AppInit(env)
  \/ \E env \in Envs : WebInit(env)
  \/ \E clip \in FewClips : ExtractFeatures(clip)
  \/ \E clip \in FewClips, fwd \in Forwards : Predict(clip, fwd)
  \/ \E env \in Envs, clip \in FewClips, fwd \in Forwards :
       AnalyzeAudioFile(env, clip, fwd)

Spec == Init /\ [][Next]_vars

\* extract_features on its own: a constructed predictor of either class, and
\* clips of every frame count around the pad length
InitFeatures ==
  /\ predictor \in {LoadedPredictor("app"), UnloadedPredictor("app"),
                    LoadedPredictor("web")}
  /\ loads = 0
  /\ call = NoCall
  /\ mfccs = <<>>
  /\ features = <<>>
  /\ ui = NoUI

NextFeatures == \E clip \in Clips : ExtractFeatures(clip)

SpecFeatures == InitFeatures /\ [][NextFeatures]_vars

----------------------------------------------------------------------------
\* Properties.

ErrorLabels == {ModelNotLoaded, CouldNotProcess}

\* the last call ran the scoring code on a probability vector
Scored == call.prediction # <<>>

\* the last call attempted feature extraction inside predict and it failed
ExtractFailedInPredict ==
  /\ call.op \in {"predict", "analyze_audio_file"}
  /\ call.extracted
  /\ ~call.clip_ok

\* C1: whenever extract_features returns a matrix (either class, any number
\* of frames), the matrix has exactly 40 rows and every row exactly 174 columns.
C1_ShapeIs40x174 ==
  (call.op = "extract_features" /\ call.ret = "array") =>
    /\ Len(features) = 40
    /\ \A r \in 1..Len(features) : Len(features[r]) = 174

\* a clip shorter than 174 frames went through app.py's extract_features
C1_Witness ==
  /\ call.op = "extract_features"
  /\ call.impl = "app"
  /\ call.ret = "array"
  /\ Len(mfccs[1]) \in 1..173
  /\ Len(features[1]) = 174

\* C2: the returned matrix equals the MFCC matrix on columns 1..min(n,174)
\* and is zero in every row on columns n+1..174 when n < 174.
C2_PrefixAndZeroTail ==
  (call.op = "extract_features" /\ call.ret = "array") =>
    LET n == Len(mfccs[1])
        kept == IF n < 174 THEN n ELSE 174
    IN \A r \in 1..40 :
         /\ r \in DOMAIN features
         /\ \A c \in 1..kept :
              c \in DOMAIN features[r] /\ features[r][c] = mfccs[r][c]
         /\ \A c \in (n + 1)..174 :
              c \in DOMAIN features[r] /\ features[r][c] = 0

\* a clip longer than 174 frames, whose 175th frame is not zero, went through
\* web_predict.py's extract_features
C2_Witness ==
  /\ call.op = "extract_features"
  /\ call.impl = "web"
  /\ call.ret = "array"
  /\ Len(mfccs[1]) > 174
  /\ \E r \in 1..40 : mfccs[r][175] # 0 /\ mfccs[r][175] # mfccs[r][1]

\* C3: on a probability vector <<b, hb, hv>> over the taxonomy the predicted
\* label is the first label holding the maximum, and the risk is b if the
\* label is bronchitis, 1 - hb if it is healthy_breath, b if it is healthy_voice.
C3_LabelAndRisk ==
  Scored =>
    LET b == call.prediction[1]
        hb == call.prediction[2]
        hv == call.prediction[3]
        label == IF b >= hb /\ b >= hv THEN "bronchitis"
                 ELSE IF hb >= hv THEN "healthy_breath"
                 ELSE "healthy_voice"
    IN /\ call.label = label
       /\ call.risk = (IF label = "healthy_breath" THEN Scale - hb ELSE b)

\* healthy_voice was predicted and the risk is the bronchitis probability,
\* which differs from 1 - confidence
C3_Witness ==
  /\ call.op = "predict"
  /\ call.impl = "web"
  /\ Scored
  /\ call.label = "healthy_voice"
  /\ call.risk = call.prediction[1]
  /\ call.risk > 0
  /\ call.risk # Scale - call.prediction[3]

\* C4: the tier rendered for a risk is Low exactly when risk <= 0.4, Medium
\* exactly when 0.4 < risk <= 0.7, High exactly when risk > 0.7, and the
\* assessment panel shows the same tier as the metric.
C4_TierThresholds ==
  ui.displayed =>
    /\ ui.level \in {"Low", "Medium", "High"}
    /\ (ui.level = "Low") <=> (10 * ui.risk <= 4 * Scale)
    /\ (ui.level = "Medium") <=>
         (4 * Scale < 10 * ui.risk /\ 10 * ui.risk <= 7 * Scale)
    /\ (ui.level = "High") <=> (10 * ui.risk > 7 * Scale)
    /\ ui.panel = (IF ui.level = "Low" THEN "risk-low"
                   ELSE IF ui.level = "Medium" THEN "risk-medium"
                   ELSE "risk-high")

\* a result with risk exactly 0.7 was rendered as Medium
C4_Witness ==
  /\ ui.displayed
  /\ 10 * ui.risk = 7 * Scale
  /\ ui.level = "Medium"
  /\ ui.panel = "risk-medium"

\* C5 (as claimed): every predict call tests that the model is loaded before
\* anything else, and with the artifact missing or unloadable neither the
\* construction nor a predict call lets an exception escape, predict
\* returning an "Error: ..." label with risk 0.
C5_ModelCheckedNoEscape ==
  /\ (call.op = "predict") => call.model_checked
  /\ (call.op \in {"init", "predict"} /\ ~call.model_loaded) =>
       /\ ~call.raised
       /\ (call.op = "predict") => (call.label \in ErrorLabels /\ call.risk = 0)

\* C6: when feature extraction fails inside a predict call, the forward pass
\* is not invoked, nothing is raised and the result is
\* ("Error: Could not process audio file", 0.0).
C6_NoForwardAfterFailedExtract ==
  ExtractFailedInPredict =>
    /\ call.forward = 0
    /\ ~call.raised
    /\ ~call.caught
    /\ call.label = CouldNotProcess
    /\ call.risk = 0

\* a predict call on a loaded predictor whose audio could not be decoded
C6_Witness ==
  /\ call.op = "predict"
  /\ call.impl = "app"
  /\ call.model_loaded
  /\ call.extracted
  /\ ~call.clip_ok
  /\ call.label = CouldNotProcess

\* C7 (as claimed, for the stages inside predict): in a predict call a
\* failure of any stage (model not loaded, decode or feature extraction,
\* forward pass) raises nothing out of predict, which returns an "Error: ..."
\* label with risk 0.
C7_EveryFailureBecomesSentinel ==
  (/\ call.op = "predict"
   /\ \/ ~call.model_loaded
      \/ (call.extracted /\ ~call.clip_ok)
      \/ ~call.fwd_ok) =>
    /\ ~call.raised
    /\ call.label \in ErrorLabels
    /\ call.risk = 0

\* C8 (as claimed): in one process the classifier artifact is loaded at most
\* once.
C8_LoadedOnce == loads <= 1

\* C8 (amended): predict and extract_features load nothing and leave the
\* predictor's model, label_encoder and max_pad_len unchanged; every
\* analyze_audio_file request builds its own predictor, loading the artifact
\* again whenever the model file exists, and leaves other predictors alone.
C8_ReadOnlyAfterConstruction ==
  [][/\ (call'.op \in {"predict", "extract_features"}) =>
          (predictor' = predictor /\ loads' = loads)
     /\ (call'.op = "analyze_audio_file") =>
          /\ predictor' = predictor
          /\ loads' = IF "model file not found" \in call'.errors
                        THEN loads ELSE loads + 1]_vars

\* a second analysis request has loaded the artifact a second time
C8_Witness ==
  /\ call.op = "analyze_audio_file"
  /\ call.model_loaded
  /\ loads = 2

\* C9: on a probability vector summing to 1, a predicted healthy_voice has
\* risk <= 1/2 and a predicted healthy_breath has risk <= 2/3, so a risk
\* above 0.7, and a High tier on screen, occur only with label bronchitis.
C9_HighOnlyForBronchitis ==
  /\ Scored =>
       /\ (call.label = "healthy_voice") => (2 * call.risk <= Scale)
       /\ (call.label = "healthy_breath") => (3 * call.risk <= 2 * Scale)
       /\ (10 * call.risk > 7 * Scale) => (call.label = "bronchitis")
  /\ (ui.displayed /\ ui.level = "High") => (ui.label = "bronchitis")

\* a healthy_breath result was rendered, in the Medium tier
C9_Witness ==
  /\ call.op = "analyze_audio_file"
  /\ Scored
  /\ ui.displayed
  /\ ui.label = "healthy_breath"
  /\ ui.level = "Medium"

\* C10: in analyze_audio_file with a loaded model, a failed feature
\* extraction still reaches display_results with the sentinel, rendered Low;
\* a request ends without display_results only when the model is not loaded
\* or an exception was raised.
C10_SentinelIsRendered ==
  (call.op = "analyze_audio_file") =>
    /\ (call.model_loaded /\ call.extracted /\ ~call.clip_ok) =>
         /\ ui.displayed
         /\ ui.label = CouldNotProcess
         /\ ui.risk = 0
         /\ ui.level = "Low"
         /\ ui.panel = "risk-low"
    /\ ~ui.displayed => (~call.model_loaded \/ call.caught)

\* a request with a loaded model and undecodable audio ended with the
\* sentinel on screen
C10_Witness ==
  /\ call.op = "analyze_audio_file"
  /\ call.model_loaded
  /\ ~call.clip_ok
  /\ ui.displayed
  /\ ui.label = CouldNotProcess
  /\ ui.level = "Low"

====
